---- MODULE Spec2Model ----
(***************************************************************************)
(* Model of the client-side logic of the study-aid frontend:               *)
(*   - QuizSection.js      : quiz component state and calculateResults     *)
(*   - TimestampsSection.js: timestamp search / topic filter               *)
(* JavaScript numbers are IEEE-754 doubles; the arithmetic used by          *)
(* calculateResults (a division, a multiplication by 100 and Math.round)   *)
(* is modelled bit-exactly on 53-bit significands held as bit sequences.   *)
(***************************************************************************)
EXTENDS Integers, Sequences, FiniteSets, TLC

(***************************************************************************)
(* Bounds of the model.                                                    *)
(***************************************************************************)
\* longest quiz for which calculateResults is applied to every quiz/answers
MaxQuestions == 3
\* longest quiz of the "first c questions answered correctly" input family
MaxUniformQuestions == 40
\* quizzes handed to the mounted quiz component, and their longest length
MaxQuizzes == 2
MaxComponentQuestions == 2
\* longest timestamp list handed to the timestamps component
MaxTimestamps == 3
\* longest timestamp list of the runs in which cards are clicked, and the
\* window.open calls followed in one such run
MaxClickTimestamps == 2
MaxOpened == 1
\* largest argument formatTime is applied to
MaxSeconds == 3661
\* POST /api/analyze requests followed in one run of the home page
MaxSubmissions == 2
\* GET /api/analysis requests and POST /api/generate-flashcards requests
\* followed in one run of the analysis page
MaxFetches == 2
MaxCardRequests == 1

(***************************************************************************)
(* IEEE-754 double arithmetic (round to nearest, ties to even).            *)
(* A positive double is 0.m[1]m[2]...m[53] * 2^e with m[1] = 1.            *)
(***************************************************************************)
MantissaBits == 53

DZero == [kind |-> "zero", e |-> 0, m |-> <<>>]
DNaN == [kind |-> "nan", e |-> 0, m |-> <<>>]
DInf == [kind |-> "inf", e |-> 0, m |-> <<>>]

\* a JavaScript number that is an integer, or NaN
JSInt(n) == [nan |-> FALSE, val |-> n]
JSNaN == [nan |-> TRUE, val |-> 0]

\* the powers of two that fit a 32-bit integer
Pow2Table == <<1, 2, 4, 8, 16, 32, 64, 128, 256, 512, 1024, 2048, 4096, 8192,
               16384, 32768, 65536, 131072, 262144, 524288, 1048576, 2097152,
               4194304, 8388608, 16777216, 33554432, 67108864, 134217728,
               268435456, 536870912, 1073741824>>
Pow2(k) == Pow2Table[k + 1]

\* 2^k mod den, for k up to 60
Pow2Mod(k, den) ==
  IF k <= 30 THEN Pow2(k) % den
  ELSE ((Pow2(30) % den) * (Pow2(k - 30) % den)) % den

\* the significand is multiplied in limbs of LimbBits binary digits
LimbBits == 24

\* the integer written by at most LimbBits binary digits, high digit first
BitsToInt(bits) ==
  LET pad == LimbBits - Len(bits)
      p == [i \in 1..LimbBits |-> IF i <= pad THEN 0 ELSE bits[i - pad]]
      byte0 == ((128 * p[1] + 64 * p[2]) + (32 * p[3] + 16 * p[4])) +
          ((8 * p[5] + 4 * p[6]) + (2 * p[7] + 1 * p[8]))
      byte1 == ((128 * p[9] + 64 * p[10]) + (32 * p[11] + 16 * p[12])) +
          ((8 * p[13] + 4 * p[14]) + (2 * p[15] + 1 * p[16]))
      byte2 == ((128 * p[17] + 64 * p[18]) + (32 * p[19] + 16 * p[20])) +
          ((8 * p[21] + 4 * p[22]) + (2 * p[23] + 1 * p[24]))
  IN (65536 * byte0 + 256 * byte1) + byte2

\* the w low binary digits of v, high digit first
IntToBitsW(v, w) == [i \in 1..w |-> (v \div Pow2(w - i)) % 2]

BitLength(v) == Cardinality({i \in 0..30 : Pow2(i) <= v})

\* the binary digits of v without leading zeros
IntToBits(v) == IntToBitsW(v, BitLength(v))

\* bits + 1, high digit first; carry = 1 when every digit was 1
IncBits(bits) ==
  LET zeros == {i \in 1..Len(bits) : bits[i] = 0}
      j == CHOOSE i \in zeros : \A i2 \in zeros : i2 <= i
  IN IF zeros = {}
     THEN [carry |-> 1, bits |-> [i \in 1..Len(bits) |-> 0]]
     ELSE [carry |-> 0,
           bits |-> [i \in 1..Len(bits) |->
                       IF i < j THEN bits[i] ELSE IF i = j THEN 1 ELSE 0]]

\* rounding of the exact value 0.bits(rest) * 2^e to a double; cmp compares
\* the discarded part with half a unit in the last place (-1, 0, 1)
RoundToDouble(bits, e, cmp) ==
  LET up == cmp = 1 \/ (cmp = 0 /\ bits[Len(bits)] = 1)
      inc == IncBits(bits)
  IN IF ~up THEN [kind |-> "pos", e |-> e, m |-> bits]
     ELSE IF inc.carry = 1
          THEN [kind |-> "pos", e |-> e + 1,
                m |-> <<1>> \o SubSeq(inc.bits, 1, Len(bits) - 1)]
          ELSE [kind |-> "pos", e |-> e, m |-> inc.bits]

Cmp(a, b) == IF a > b THEN 1 ELSE IF a = b THEN 0 ELSE -1

\* the largest binary shift applied when a quotient is normalised
MaxShift == 20

\* num / (den * 2^e) brought into [1/2, 1); the shift is the difference of
\* the bit lengths or one more
Normalize(num, den) ==
  LET InRange(n, d) == n < d /\ 2 * n >= d
      d0 == BitLength(num) - BitLength(den)
      e == CHOOSE x \in {y \in d0..(d0 + 1) : 0 - MaxShift <= y /\ y <= MaxShift} :
             IF x >= 0 THEN InRange(num, den * Pow2(x))
             ELSE InRange(num * Pow2(0 - x), den)
  IN IF e >= 0 THEN [num |-> num, den |-> den * Pow2(e), e |-> e]
     ELSE [num |-> num * Pow2(0 - e), den |-> den, e |-> e]

\* the remainder of long division of num by den after k binary digits
DivRem(num, den, k) == (num * Pow2Mod(k, den)) % den

\* the first k binary digits of num / den (num < den) and the remainder
DivBits(num, den, k) ==
  [bits |-> [i \in 1..k |->
               IF 2 * DivRem(num, den, i - 1) >= den THEN 1 ELSE 0],
   rem |-> DivRem(num, den, k)]

\* the double c / n for non-negative integers c and n
DoubleDiv(c, n) ==
  IF n = 0 THEN (IF c = 0 THEN DNaN ELSE DInf)
  ELSE IF c = 0 THEN DZero
  ELSE LET nz == Normalize(c, n)
           q == DivBits(nz.num, nz.den, MantissaBits)
       IN RoundToDouble(q.bits, nz.e, Cmp(2 * q.rem, nz.den))

\* the binary digits of m * k without leading zeros, for a significand m of
\* MantissaBits digits (three limbs) and 0 < k < 128
MulBits(m, k) ==
  LET l0 == BitsToInt(SubSeq(m, Len(m) - LimbBits + 1, Len(m)))
      l1 == BitsToInt(SubSeq(m, Len(m) - 2 * LimbBits + 1, Len(m) - LimbBits))
      l2 == BitsToInt(SubSeq(m, 1, Len(m) - 2 * LimbBits))
      t0 == l0 * k
      t1 == l1 * k + t0 \div Pow2(LimbBits)
      t2 == l2 * k + t1 \div Pow2(LimbBits)
  IN IntToBits(t2) \o IntToBitsW(t1 % Pow2(LimbBits), LimbBits)
       \o IntToBitsW(t0 % Pow2(LimbBits), LimbBits)

\* the double x * k for a positive integer k
DoubleMulInt(x, k) ==
  IF x.kind # "pos" THEN x
  ELSE LET all == MulBits(x.m, k)
           extra == Len(all) - MantissaBits
           rest == BitsToInt(SubSeq(all, MantissaBits + 1, Len(all)))
       IN IF extra = 0 THEN [kind |-> "pos", e |-> x.e, m |-> all]
          ELSE RoundToDouble(SubSeq(all, 1, MantissaBits), x.e + extra,
                             Cmp(2 * rest, Pow2(extra)))

\* Math.round: the nearest integer, ties towards +Infinity; NaN stays NaN
MathRound(x) ==
  IF x.kind = "nan" \/ x.kind = "inf" THEN JSNaN
  ELSE IF x.kind = "zero" THEN JSInt(0)
  ELSE IF x.e < 0 THEN JSInt(0)
  ELSE JSInt(BitsToInt(SubSeq(x.m, 1, x.e)) + x.m[x.e + 1])

\* Math.floor of a non-negative double
MathFloor(x) ==
  IF x.kind = "nan" \/ x.kind = "inf" THEN JSNaN
  ELSE IF x.kind = "zero" \/ x.e <= 0 THEN JSInt(0)
  ELSE JSInt(BitsToInt(SubSeq(x.m, 1, x.e)))

(***************************************************************************)
(* Number to string conversion and string padding.  A string is a sequence *)
(* of one-character strings.                                               *)
(***************************************************************************)
DecimalDigits == <<"0", "1", "2", "3", "4", "5", "6", "7", "8", "9">>
Pow10(k) ==
  <<1, 10, 100, 1000, 10000, 100000, 1000000, 10000000, 100000000,
    1000000000>>[k + 1]

\* Number.prototype.toString of a non-negative integer below 2^31
NumberToString(n) ==
  LET len == IF n = 0 THEN 1
             ELSE Cardinality({k \in 0..9 : Pow10(k) <= n})
  IN [i \in 1..len |-> DecimalDigits[((n \div Pow10(len - i)) % 10) + 1]]

\* `${x}` for a number x that is an integer or NaN
TemplateString(x) == IF x.nan THEN <<"N", "a", "N">> ELSE NumberToString(x.val)

\* String.prototype.padStart with a one-character padString
padStart(str, targetLength, padChar) ==
  IF Len(str) >= targetLength THEN str
  ELSE [i \in 1..(targetLength - Len(str)) |-> padChar] \o str

(***************************************************************************)
(* Quiz data.  A quiz is its ordered question list; an answer mapping is a *)
(* function from a set of 0-based question indices to option strings.      *)
(***************************************************************************)
Q1 == [question |-> "q1", options |-> <<"A", "B">>,
       correct_answer |-> "A", explanation |-> "e1"]
Q2 == [question |-> "q2", options |-> <<"A", "B">>,
       correct_answer |-> "B", explanation |-> "e2"]
Q3 == [question |-> "q3", options |-> <<"C", "">>,
       correct_answer |-> "C", explanation |-> "e3"]
Questions == {Q1, Q2, Q3}
ComponentQuestions == {Q1, Q3}
AnswerStrings == {"A", "B", "C", ""}

SeqsUpTo(S, n) == UNION {[1..k -> S] : k \in 0..n}
PartialMaps(D, R) == UNION {[S -> R] : S \in SUBSET D}
Indices(qz) == 0..(Len(qz.questions) - 1)
EmptyAnswers == <<>>
Null == [isNull |-> TRUE]

VARIABLES
  quizzes,        \* QuizSection prop
  selectedQuiz,   \* useState(0)
  userAnswers,    \* useState({})
  showResults,    \* useState(false)
  quizResults,    \* useState(null)
  quiz,           \* calculateResults argument
  answers,        \* calculateResults argument
  results,        \* value returned by the last calculateResults call
  pc,             \* position of the caller of calculateResults
  timestamps,     \* TimestampsSection prop
  searchTerm,     \* useState('')
  selectedTopic,  \* useState('all')
  videoId,        \* TimestampsSection prop
  opened,         \* the window.open calls made so far, oldest first
  clicked,        \* 0-based index of the card of the rendered list clicked last
  seconds,        \* formatTime argument
  formatted,      \* value returned by the formatTime call
  videoUrl,       \* VideoInputForm useState('')
  summaryDepth,   \* VideoInputForm useState('medium')
  formError,      \* VideoInputForm useState(''), the state named error
  isAnalyzing,    \* HomePage useState(false)
  calls,          \* the handleVideoAnalysis invocations, oldest first
  alerts,         \* the messages passed to alert(), oldest first
  navigated,      \* the route HomePage navigated to, or Null
  routeVideoId,   \* AnalysisPage videoId (useParams)
  locationState,  \* AnalysisPage location.state?.analysisData, or Null
  analysisData,   \* AnalysisPage useState(location.state?.analysisData || null)
  loading,        \* AnalysisPage useState(!analysisData)
  error,          \* AnalysisPage useState(null)
  showMockDataToast, \* AnalysisPage useState(false)
  fetches,        \* the fetchAnalysisData invocations, oldest first
  mounted,        \* the first render and its effects have run
  mockEffectDep,  \* isUsingMockData as the toast effect saw it last
  toastTimer,     \* the 10 second timer of the toast effect is armed
  generatingCards, \* AnalysisPage useState(false)
  showCardsToast, \* AnalysisPage useState(false)
  cardRequests,   \* the POST /api/generate-flashcards requests, oldest first
  lastOp          \* the handler that ran last

vars == <<quizzes, selectedQuiz, userAnswers, showResults, quizResults,
          quiz, answers, results, pc,
          timestamps, searchTerm, selectedTopic, videoId, opened, clicked,
          seconds, formatted,
          videoUrl, summaryDepth, formError, isAnalyzing, calls, alerts,
          navigated,
          routeVideoId, locationState, analysisData, loading, error, showMockDataToast,
          fetches, mounted, mockEffectDep, toastTimer,
          generatingCards, showCardsToast, cardRequests, lastOp>>
quizVars == <<quizzes, selectedQuiz, userAnswers, showResults, quizResults>>
calcVars == <<quiz, answers, results, pc>>
tsVars == <<timestamps, searchTerm, selectedTopic, videoId, opened, clicked>>
fmtVars == <<seconds, formatted>>
homeVars == <<videoUrl, summaryDepth, formError, isAnalyzing, calls, alerts,
              navigated>>
cardVars == <<generatingCards, showCardsToast, cardRequests>>
pageVars == <<routeVideoId, locationState, analysisData, loading, error, showMockDataToast,
              fetches, mounted, mockEffectDep, toastTimer, cardVars>>

(***************************************************************************)
(* calculateResults                                                        *)
(***************************************************************************)
\* forEachStep with an unanswered question defaulting to the first option
forEachStep_DefaultFirstOption(acc, question, index, ans) ==
  LET userAnswer == IF index \in DOMAIN ans THEN ans[index]
                    ELSE question.options[1]
      isCorrect == userAnswer = question.correct_answer
  IN [correctAnswers |-> acc.correctAnswers + (IF isCorrect THEN 1 ELSE 0),
      feedback |-> Append(acc.feedback,
                          [questionIndex |-> index,
                           userAnswer |-> IF userAnswer # "" THEN userAnswer
                                          ELSE "Not answered",
                           correctAnswer |-> question.correct_answer,
                           isCorrect |-> isCorrect,
                           explanation |-> question.explanation])]

\* forEachStep without the 'Not answered' substitution
forEachStep_NoSentinel(acc, question, index, ans) ==
  LET has == index \in DOMAIN ans
      isCorrect == has /\ ans[index] = question.correct_answer
  IN [correctAnswers |-> acc.correctAnswers + (IF isCorrect THEN 1 ELSE 0),
      feedback |-> Append(acc.feedback,
                          [questionIndex |-> index,
                           userAnswer |-> IF has THEN ans[index] ELSE "",
                           correctAnswer |-> question.correct_answer,
                           isCorrect |-> isCorrect,
                           explanation |-> question.explanation])]

\* forEachStep that records feedback only for answered questions
forEachStep_SkipUnanswered(acc, question, index, ans) ==
  LET has == index \in DOMAIN ans
      isCorrect == has /\ ans[index] = question.correct_answer
  IN [correctAnswers |-> acc.correctAnswers + (IF isCorrect THEN 1 ELSE 0),
      feedback |-> IF ~has THEN acc.feedback
                   ELSE Append(acc.feedback,
                          [questionIndex |-> index,
                           userAnswer |-> IF ans[index] # "" THEN ans[index]
                                          ELSE "Not answered",
                           correctAnswer |-> question.correct_answer,
                           isCorrect |-> isCorrect,
                           explanation |-> question.explanation])]

\* one iteration of quiz.questions.forEach; index is 0-based
forEachStep(acc, question, index, ans) ==
  LET has == index \in DOMAIN ans
      isCorrect == has /\ ans[index] = question.correct_answer
      userAnswer == IF has /\ ans[index] # "" THEN ans[index]
                    ELSE "Not answered"
  IN [correctAnswers |-> acc.correctAnswers + (IF isCorrect THEN 1 ELSE 0),
      feedback |-> Append(acc.feedback,
                          [questionIndex |-> index,
                           userAnswer |-> userAnswer,
                           correctAnswer |-> question.correct_answer,
                           isCorrect |-> isCorrect,
                           explanation |-> question.explanation])]

\* quiz.questions.forEach over the questions lo..hi (1-based positions); the
\* iterations only add to the accumulator, so the range is folded by halves
RECURSIVE forEach(_, _, _, _)
forEach(questions, ans, lo, hi) ==
  IF lo > hi THEN [correctAnswers |-> 0, feedback |-> <<>>]
  ELSE IF lo = hi
  THEN forEachStep([correctAnswers |-> 0, feedback |-> <<>>],
                   questions[lo], lo - 1, ans)
  ELSE LET mid == (lo + hi) \div 2
           left == forEach(questions, ans, lo, mid)
           right == forEach(questions, ans, mid + 1, hi)
       IN [correctAnswers |-> left.correctAnswers + right.correctAnswers,
           feedback |-> left.feedback \o right.feedback]

scorePercentage(correctAnswers, length) ==
  MathRound(DoubleMulInt(DoubleDiv(correctAnswers, length), 100))

calculateResults(qz, ans) ==
  LET acc == forEach(qz.questions, ans, 1, Len(qz.questions))
  IN [totalQuestions |-> Len(qz.questions),
      correctAnswers |-> acc.correctAnswers,
      scorePercentage |-> scorePercentage(acc.correctAnswers,
                                          Len(qz.questions)),
      feedback |-> acc.feedback]

(***************************************************************************)
(* Inputs on which calculateResults is applied directly.                   *)
(***************************************************************************)
UniformQuiz(n) == [questions |-> [i \in 1..n |-> Q1]]
FirstCorrect(c) == [i \in 0..(c - 1) |-> "A"]

UnmountedQuiz ==
  /\ quizzes = <<>>
  /\ selectedQuiz = 0
  /\ userAnswers = EmptyAnswers
  /\ showResults = FALSE
  /\ quizResults = Null
UnmountedCalc ==
  /\ quiz = [questions |-> <<>>]
  /\ answers = EmptyAnswers
  /\ results = Null
  /\ pc = "idle"
UnmountedTs ==
  /\ timestamps = <<>>
  /\ searchTerm = <<>>
  /\ selectedTopic = <<"a", "l", "l">>
  /\ videoId = <<>>
  /\ opened = <<>>
  /\ clicked = 0
UnmountedFmt ==
  /\ seconds = 0
  /\ formatted = Null
UnmountedPage ==
  /\ routeVideoId = ""
  /\ locationState = Null
  /\ analysisData = Null
  /\ loading = TRUE
  /\ error = Null
  /\ showMockDataToast = FALSE
  /\ fetches = <<>>
  /\ mounted = FALSE
  /\ mockEffectDep = FALSE
  /\ toastTimer = FALSE
  /\ generatingCards = FALSE
  /\ showCardsToast = FALSE
  /\ cardRequests = <<>>
UnmountedHome ==
  /\ videoUrl = <<>>
  /\ summaryDepth = "medium"
  /\ formError = ""
  /\ isAnalyzing = FALSE
  /\ calls = <<>>
  /\ alerts = <<>>
  /\ navigated = Null

InitCalc ==
  /\ \/ \E s \in SeqsUpTo(Questions, MaxQuestions) :
          /\ quiz = [questions |-> s]
          /\ answers \in PartialMaps(0..(Len(s) - 1), AnswerStrings)
     \/ \E n \in 1..MaxUniformQuestions : \E c \in 0..n :
          /\ quiz = UniformQuiz(n)
          /\ answers = FirstCorrect(c)
  /\ results = Null
  /\ pc = "idle"
  /\ quizzes = <<quiz>>
  /\ selectedQuiz = 0
  /\ userAnswers = EmptyAnswers
  /\ showResults = FALSE
  /\ quizResults = Null
  /\ UnmountedTs
  /\ UnmountedFmt
  /\ UnmountedHome
  /\ UnmountedPage
  /\ lastOp = "init"

\* calculateResults writing the 'Not answered' sentinel into its argument
CallCalculateResults_FillsAnswers ==
  /\ pc = "idle"
  /\ results' = calculateResults(quiz, answers)
  /\ answers' = [i \in Indices(quiz) \cup DOMAIN answers |->
                   IF i \in DOMAIN answers THEN answers[i]
                   ELSE "Not answered"]
  /\ pc' = "returned"
  /\ lastOp' = "calculateResults"
  /\ UNCHANGED <<quiz, quizVars, tsVars, fmtVars,
                 homeVars, pageVars>>

CallCalculateResults ==
  /\ pc = "idle"
  /\ results' = calculateResults(quiz, answers)
  /\ pc' = "returned"
  /\ lastOp' = "calculateResults"
  /\ UNCHANGED <<quiz, answers, quizVars, tsVars, fmtVars,
                 homeVars, pageVars>>

SpecCalc == InitCalc /\ [][CallCalculateResults]_vars

(***************************************************************************)
(* The quiz component (QuizSection) mounted with a fixed quizzes prop.     *)
(***************************************************************************)
currentQuiz == quizzes[selectedQuiz + 1]
ObjectKeysLength(obj) == Cardinality(DOMAIN obj)
SubmitDisabled ==
  ObjectKeysLength(userAnswers) < Len(currentQuiz.questions)
SubmitEnabled == ~showResults /\ ~SubmitDisabled

ComponentQuizzes ==
  {[questions |-> s] : s \in SeqsUpTo(ComponentQuestions, MaxComponentQuestions)}

Init ==
  /\ quizzes \in {qs \in SeqsUpTo(ComponentQuizzes, MaxQuizzes) : Len(qs) >= 1}
  /\ selectedQuiz = 0
  /\ userAnswers = EmptyAnswers
  /\ showResults = FALSE
  /\ quizResults = Null
  /\ UnmountedCalc
  /\ UnmountedTs
  /\ UnmountedFmt
  /\ UnmountedHome
  /\ UnmountedPage
  /\ lastOp = "init"

\* the radio input of option `answer` of question `questionIndex`
handleAnswerSelect(questionIndex, answer) ==
  /\ ~showResults
  /\ userAnswers' = [i \in DOMAIN userAnswers \cup {questionIndex} |->
                       IF i = questionIndex THEN answer ELSE userAnswers[i]]
  /\ lastOp' = "handleAnswerSelect"
  /\ UNCHANGED <<quizzes, selectedQuiz, showResults, quizResults>>

AnswerSelect ==
  \E questionIndex \in Indices(currentQuiz) :
    \E optionIndex \in
         1..Len(currentQuiz.questions[questionIndex + 1].options) :
      handleAnswerSelect(questionIndex,
        currentQuiz.questions[questionIndex + 1].options[optionIndex])

\* the Submit Quiz button
handleSubmitQuiz ==
  /\ SubmitEnabled
  /\ quizResults' = calculateResults(currentQuiz, userAnswers)
  /\ showResults' = TRUE
  /\ lastOp' = "handleSubmitQuiz"
  /\ UNCHANGED <<quizzes, selectedQuiz, userAnswers>>

\* resetQuiz that leaves the previous results in place
resetQuiz_KeepsResults ==
  /\ userAnswers' = EmptyAnswers
  /\ showResults' = FALSE
  /\ quizResults' = quizResults

resetQuiz ==
  /\ userAnswers' = EmptyAnswers
  /\ showResults' = FALSE
  /\ quizResults' = Null

\* the Reset Quiz button (question view)
ResetQuizClick ==
  /\ ~showResults
  /\ resetQuiz
  /\ lastOp' = "resetQuiz"
  /\ UNCHANGED <<quizzes, selectedQuiz>>

\* the Try Again button (results view)
TryAgainClick ==
  /\ showResults
  /\ resetQuiz
  /\ lastOp' = "tryAgain"
  /\ UNCHANGED <<quizzes, selectedQuiz>>

\* quiz selection that does not call resetQuiz
SelectQuizClick_KeepsAnswers ==
  /\ Len(quizzes) > 1
  /\ \E index \in 0..(Len(quizzes) - 1) : selectedQuiz' = index
  /\ lastOp' = "selectQuiz"
  /\ UNCHANGED <<quizzes, userAnswers, showResults, quizResults>>

\* a button of the quiz selection grid
SelectQuizClick ==
  /\ Len(quizzes) > 1
  /\ \E index \in 0..(Len(quizzes) - 1) : selectedQuiz' = index
  /\ resetQuiz
  /\ lastOp' = "selectQuiz"
  /\ UNCHANGED quizzes

\* the Next Quiz button without resetQuiz
NextQuizClick_KeepsResults ==
  /\ showResults
  /\ selectedQuiz < Len(quizzes) - 1
  /\ selectedQuiz' = selectedQuiz + 1
  /\ lastOp' = "nextQuiz"
  /\ UNCHANGED <<quizzes, userAnswers, showResults, quizResults>>

\* the Next Quiz button (results view)
NextQuizClick ==
  /\ showResults
  /\ selectedQuiz < Len(quizzes) - 1
  /\ selectedQuiz' = selectedQuiz + 1
  /\ resetQuiz
  /\ lastOp' = "nextQuiz"
  /\ UNCHANGED quizzes

Next ==
  \/ (AnswerSelect /\ UNCHANGED <<calcVars, tsVars, fmtVars, homeVars, pageVars>>)
  \/ (handleSubmitQuiz /\ UNCHANGED <<calcVars, tsVars, fmtVars, homeVars, pageVars>>)
  \/ (ResetQuizClick /\ UNCHANGED <<calcVars, tsVars, fmtVars, homeVars, pageVars>>)
  \/ (TryAgainClick /\ UNCHANGED <<calcVars, tsVars, fmtVars, homeVars, pageVars>>)
  \/ (SelectQuizClick /\ UNCHANGED <<calcVars, tsVars, fmtVars, homeVars, pageVars>>)
  \/ (NextQuizClick /\ UNCHANGED <<calcVars, tsVars, fmtVars, homeVars, pageVars>>)
Spec == Init /\ [][Next]_vars

(***************************************************************************)
(* The timestamps component (TimestampsSection).  JavaScript strings are   *)
(* sequences of one-character strings, so that toLowerCase and includes    *)
(* act on their characters.                                                *)
(***************************************************************************)
UpperCase == <<"A", "B", "C", "D", "E", "F", "G", "H", "I", "J", "K", "L", "M",
               "N", "O", "P", "Q", "R", "S", "T", "U", "V", "W", "X", "Y", "Z">>
LowerCase == <<"a", "b", "c", "d", "e", "f", "g", "h", "i", "j", "k", "l", "m",
               "n", "o", "p", "q", "r", "s", "t", "u", "v", "w", "x", "y", "z">>

toLowerCaseChar(c) ==
  IF \E i \in 1..Len(UpperCase) : UpperCase[i] = c
  THEN LowerCase[CHOOSE i \in 1..Len(UpperCase) : UpperCase[i] = c]
  ELSE c

\* String.prototype.toLowerCase
toLowerCase(str) == [i \in 1..Len(str) |-> toLowerCaseChar(str[i])]

\* String.prototype.includes
includes(str, sub) ==
  \E i \in 0..(Len(str) - Len(sub)) : SubSeq(str, i + 1, i + Len(sub)) = sub

All == <<"a", "l", "l">>
Intro == <<"I", "n", "t", "r", "o">>
Loops == <<"L", "o", "o", "p", "s">>
E1 == [time |-> <<"0", ":", "0", "0">>, seconds |-> 0, topic |-> Intro,
       description |-> <<"H", "i">>, keywords |-> <<>>]
E2 == [time |-> <<"2", ":", "0", "0">>, seconds |-> 120, topic |-> Loops,
       description |-> <<"f", "o", "r">>,
       keywords |-> << <<"W", "H", "I", "L", "E">> >>]
E3 == [time |-> <<"3", ":", "2", "0">>, seconds |-> 200, topic |-> All,
       description |-> <<>>,
       keywords |-> << <<"e", "n", "d">>, <<"L", "O", "O", "P">> >>]
E4 == [time |-> <<"5", ":", "0", "0">>, seconds |-> 300, topic |-> Intro,
       description |-> <<"l", "O", "o", "P">>, keywords |-> <<>>]
TimestampEntries == {E1, E2, E3, E4}
VideoIds == {<<"d", "Q", "w">>, <<"x", "_", "7">>}
Queries == {<<>>, <<"l", "o", "o", "p">>, <<"L", "o", "O", "p">>,
            <<"i", "n", "t", "r", "o">>, <<"x">>}

\* the distinct elements of a sequence in first-seen order (new Set(...))
RECURSIVE Distinct(_)
Distinct(seq) ==
  IF seq = <<>> THEN <<>>
  ELSE LET front == Distinct(SubSeq(seq, 1, Len(seq) - 1))
           last == seq[Len(seq)]
       IN IF \E i \in 1..Len(front) : front[i] = last THEN front
          ELSE Append(front, last)

\* matchesSearch that also requires a keyword to match
matchesSearch_KeywordRequired(timestamp) ==
  /\ \/ includes(toLowerCase(timestamp.topic), toLowerCase(searchTerm))
     \/ includes(toLowerCase(timestamp.description), toLowerCase(searchTerm))
  /\ \E k \in 1..Len(timestamp.keywords) :
       includes(toLowerCase(timestamp.keywords[k]), toLowerCase(searchTerm))

matchesSearch(timestamp) ==
  \/ includes(toLowerCase(timestamp.topic), toLowerCase(searchTerm))
  \/ includes(toLowerCase(timestamp.description), toLowerCase(searchTerm))
  \/ \E k \in 1..Len(timestamp.keywords) :
       includes(toLowerCase(timestamp.keywords[k]), toLowerCase(searchTerm))

matchesTopic(timestamp) ==
  selectedTopic = All \/ timestamp.topic = selectedTopic

\* a filter callback that also uses the position and drops the first element
filterWithCriteria_DropsFirst(list) ==
  LET Test(timestamp) == matchesSearch(timestamp) /\ matchesTopic(timestamp)
      kept == SelectSeq(list, Test)
  IN IF kept = <<>> THEN kept ELSE Tail(kept)

\* Array.filter with the callback of filteredTimestamps, applied to any list
\* of entries under the current searchTerm and selectedTopic
filterWithCriteria(list) ==
  LET Test(timestamp) == matchesSearch(timestamp) /\ matchesTopic(timestamp)
  IN SelectSeq(list, Test)

\* the filter keeping an entry that passes either test
filteredTimestamps_EitherTest ==
  LET Test(timestamp) == matchesSearch(timestamp) \/ matchesTopic(timestamp)
  IN SelectSeq(timestamps, Test)

filteredTimestamps == filterWithCriteria(timestamps)

\* the options computed from the entries that pass the current filter
topics_FromFiltered ==
  <<All>> \o Distinct([i \in 1..Len(filterWithCriteria(timestamps)) |->
                        filterWithCriteria(timestamps)[i].topic])

topics == <<All>> \o Distinct([i \in 1..Len(timestamps) |-> timestamps[i].topic])

InitTs ==
  /\ timestamps \in SeqsUpTo(TimestampEntries, MaxTimestamps)
  /\ searchTerm = <<>>
  /\ selectedTopic = All
  /\ videoId \in VideoIds
  /\ opened = <<>>
  /\ clicked = 0
  /\ UnmountedQuiz
  /\ UnmountedCalc
  /\ UnmountedFmt
  /\ UnmountedHome
  /\ UnmountedPage
  /\ lastOp = "init"

\* onChange of the search input
setSearchTerm ==
  /\ \E value \in Queries : searchTerm' = value
  /\ lastOp' = "setSearchTerm"
  /\ UNCHANGED <<timestamps, selectedTopic, videoId, opened, clicked, quizVars, calcVars, fmtVars,
                 homeVars, pageVars>>

\* onChange of the topic select, whose options are the topics
setSelectedTopic ==
  /\ \E k \in 1..Len(topics) : selectedTopic' = topics[k]
  /\ lastOp' = "setSelectedTopic"
  /\ UNCHANGED <<timestamps, searchTerm, videoId, opened, clicked, quizVars, calcVars, fmtVars,
                 homeVars, pageVars>>

WatchUrl ==
  <<"h", "t", "t", "p", "s", ":", "/", "/", "w", "w", "w", ".", "y", "o", "u",
    "t", "u", "b", "e", ".", "c", "o", "m", "/", "w", "a", "t", "c", "h", "?",
    "v", "=">>
TimeParam == <<"&", "t", "=">>

\* window.open(youtubeUrl, '_blank') for the given entry
handleTimestampClick(timestamp) ==
  LET youtubeUrl == WatchUrl \o videoId \o TimeParam
                      \o NumberToString(timestamp.seconds)
  IN opened' = Append(opened, [url |-> youtubeUrl, target |-> "_blank"])

\* a card whose handler receives the entry at its position in the whole list
TimestampClick_UnfilteredIndex ==
  /\ Len(opened) < MaxOpened
  /\ \E index \in 0..(Len(filteredTimestamps) - 1) :
       /\ handleTimestampClick(timestamps[index + 1])
       /\ clicked' = index
  /\ lastOp' = "handleTimestampClick"
  /\ UNCHANGED <<timestamps, searchTerm, selectedTopic, videoId, quizVars, calcVars, fmtVars,
                 homeVars, pageVars>>

\* onClick of a card of filteredTimestamps.map((timestamp, index) => ...)
TimestampClick ==
  /\ Len(opened) < MaxOpened
  /\ \E index \in 0..(Len(filteredTimestamps) - 1) :
       /\ handleTimestampClick(filteredTimestamps[index + 1])
       /\ clicked' = index
  /\ lastOp' = "handleTimestampClick"
  /\ UNCHANGED <<timestamps, searchTerm, selectedTopic, videoId, quizVars, calcVars, fmtVars,
                 homeVars, pageVars>>

NextTs == setSearchTerm \/ setSelectedTopic
SpecTs == InitTs /\ [][NextTs]_vars

\* the component with its cards clicked, on shorter lists
InitClick ==
  /\ timestamps \in SeqsUpTo(TimestampEntries, MaxClickTimestamps)
  /\ searchTerm = <<>>
  /\ selectedTopic = All
  /\ videoId \in VideoIds
  /\ opened = <<>>
  /\ clicked = 0
  /\ UnmountedQuiz
  /\ UnmountedCalc
  /\ UnmountedFmt
  /\ UnmountedHome
  /\ UnmountedPage
  /\ lastOp = "init"

NextClick == setSearchTerm \/ setSelectedTopic \/ TimestampClick
SpecClick == InitClick /\ [][NextClick]_vars

(***************************************************************************)
(* formatTime (TimestampsSection), applied to a bounded set of arguments.  *)
(***************************************************************************)
\* formatTime without the padStart
formatTime_NoPad(s) ==
  LET minutes == MathFloor(DoubleDiv(s, 60))
      remainingSeconds == s % 60
  IN TemplateString(minutes) \o <<":">> \o NumberToString(remainingSeconds)

formatTime(s) ==
  LET minutes == MathFloor(DoubleDiv(s, 60))
      remainingSeconds == s % 60
  IN TemplateString(minutes) \o <<":">>
       \o padStart(NumberToString(remainingSeconds), 2, "0")

InitFmt ==
  /\ seconds \in 0..MaxSeconds
  /\ formatted = Null
  /\ UnmountedQuiz
  /\ UnmountedCalc
  /\ UnmountedTs
  /\ UnmountedHome
  /\ UnmountedPage
  /\ lastOp = "init"

CallFormatTime ==
  /\ formatted = Null
  /\ formatted' = formatTime(seconds)
  /\ lastOp' = "formatTime"
  /\ UNCHANGED <<seconds, quizVars, calcVars, tsVars,
                 homeVars, pageVars>>

SpecFmt == InitFmt /\ [][CallFormatTime]_vars

(***************************************************************************)
(* The home page (HomePage) with its form (VideoInputForm).  URLs are      *)
(* sequences of one-character strings, matched as the regular expressions  *)
(* of validateYouTubeUrl match them.                                       *)
(***************************************************************************)
\* https?:\/\/
Schemes == {<<"h", "t", "t", "p", ":", "/", "/">>,
            <<"h", "t", "t", "p", "s", ":", "/", "/">>}
Www ==
  <<"w", "w", "w", ".">>
WatchV ==
  <<"y", "o", "u", "t", "u", "b", "e", ".", "c", "o", "m", "/", "w", "a",
    "t", "c", "h", "?", "v", "=">>
YoutuBe ==
  <<"y", "o", "u", "t", "u", ".", "b", "e", "/">>
Embed ==
  <<"y", "o", "u", "t", "u", "b", "e", ".", "c", "o", "m", "/", "e", "m",
    "b", "e", "d", "/">>
WwwWatchQuery ==
  <<"w", "w", "w", ".", "y", "o", "u", "t", "u", "b", "e", ".", "c", "o",
    "m", "/", "w", "a", "t", "c", "h", "?">>

\* the URLs typed into the form
UrlEmpty ==
  <<>>
UrlBlank ==
  <<" ">>
UrlOther ==
  <<"h", "t", "t", "p", "s", ":", "/", "/", "v", "i", "m", "e", "o", ".",
    "c", "o", "m", "/", "1">>
UrlNoId ==
  <<"h", "t", "t", "p", "s", ":", "/", "/", "y", "o", "u", "t", "u", ".",
    "b", "e", "/">>
UrlWatch ==
  <<"h", "t", "t", "p", "s", ":", "/", "/", "w", "w", "w", ".", "y", "o",
    "u", "t", "u", "b", "e", ".", "c", "o", "m", "/", "w", "a", "t", "c",
    "h", "?", "v", "=", "a", "1">>
UrlShort ==
  <<"y", "o", "u", "t", "u", ".", "b", "e", "/", "b">>
UrlParam ==
  <<"h", "t", "t", "p", ":", "/", "/", "w", "w", "w", ".", "y", "o", "u",
    "t", "u", "b", "e", ".", "c", "o", "m", "/", "w", "a", "t", "c", "h",
    "?", "x", "=", "1", "&", "v", "=", "c">>
UrlEmbed ==
  <<"h", "t", "t", "p", "s", ":", "/", "/", "w", "w", "w", ".", "y", "o",
    "u", "t", "u", "b", "e", ".", "c", "o", "m", "/", "e", "m", "b", "e",
    "d", "/", "d">>
FormUrls == {UrlEmpty, UrlBlank, UrlOther, UrlNoId, UrlWatch, UrlShort, UrlParam,
             UrlEmbed}
HomeUrls == {UrlEmpty, UrlOther, UrlWatch, UrlParam}
SummaryDepths == {"short", "medium", "detailed"}


\* String.prototype.trim
trim(str) ==
  LET keep == {i \in 1..Len(str) : str[i] \notin {" ", "\t", "\n", "\r"}}
      first == CHOOSE i \in keep : \A j \in keep : i <= j
      last == CHOOSE i \in keep : \A j \in keep : j <= i
  IN IF keep = {} THEN <<>> ELSE SubSeq(str, first, last)

\* the literal lit occurs in str at position pos (1-based)
StartsWithAt(str, pos, lit) ==
  /\ pos + Len(lit) - 1 <= Len(str)
  /\ SubSeq(str, pos, pos + Len(lit) - 1) = lit

\* ([^&\n?#]+) matches at position pos
IdAt(str, pos) ==
  /\ pos <= Len(str)
  /\ str[pos] \notin {"&", "\n", "?", "#"}

\* ^(https?:\/\/)?(www\.)?(youtube\.com\/watch\?v=|youtu\.be\/|youtube\.com\/embed\/)([^&\n?#]+)
Pattern1(url) ==
  \E scheme \in {<<>>} \cup Schemes :
    \E www \in {<<>>, Www} :
      \E host \in {WatchV, YoutuBe, Embed} :
        /\ StartsWithAt(url, 1, scheme \o www \o host)
        /\ IdAt(url, 1 + Len(scheme) + Len(www) + Len(host))

\* ^https?:\/\/www\.youtube\.com\/watch\?.*v=([^&\n?#]+)
Pattern2(url) ==
  \E scheme \in Schemes :
    LET from == 1 + Len(scheme) + Len(WwwWatchQuery)
    IN /\ StartsWithAt(url, 1, scheme \o WwwWatchQuery)
       /\ \E k \in from..Len(url) :
            /\ \A j \in from..(k - 1) : url[j] \notin {"\n", "\r"}
            /\ StartsWithAt(url, k, <<"v", "=">>)
            /\ IdAt(url, k + 2)

\* ^https?:\/\/youtu\.be\/([^&\n?#]+)
Pattern3(url) ==
  \E scheme \in Schemes :
    /\ StartsWithAt(url, 1, scheme \o YoutuBe)
    /\ IdAt(url, 1 + Len(scheme) + Len(YoutuBe))

\* ^https?:\/\/www\.youtube\.com\/embed\/([^&\n?#]+)
Pattern4(url) ==
  \E scheme \in Schemes :
    /\ StartsWithAt(url, 1, scheme \o Www \o Embed)
    /\ IdAt(url, 1 + Len(scheme) + Len(Www) + Len(Embed))

\* patterns.some(pattern => pattern.test(url))
validateYouTubeUrl(url) ==
  Pattern1(url) \/ Pattern2(url) \/ Pattern3(url) \/ Pattern4(url)

AnalyzeFailedAlert == "Failed to analyze video. Please try again."

\* handleVideoAnalysis up to its first await: the POST is sent
handleVideoAnalysis(url, depth) ==
  /\ isAnalyzing' = TRUE
  /\ calls' = Append(calls, [pc |-> "awaitFetch", url |-> url,
                             summary_depth |-> depth])

\* handleSubmit that calls onAnalyze without testing the URL pattern
handleSubmit_NoPatternCheck ==
  /\ navigated = Null
  /\ Len(calls) < MaxSubmissions
  /\ IF trim(videoUrl) = <<>>
     THEN /\ formError' = "Please enter a YouTube URL"
          /\ UNCHANGED <<isAnalyzing, calls>>
     ELSE /\ formError' = ""
          /\ handleVideoAnalysis(videoUrl, summaryDepth)
  /\ lastOp' = "handleSubmit"
  /\ UNCHANGED <<videoUrl, summaryDepth, alerts, navigated, quizVars, calcVars, tsVars,
                 fmtVars, pageVars>>

\* handleSubmit of the form, up to the await of onAnalyze
handleSubmit ==
  /\ navigated = Null
  /\ Len(calls) < MaxSubmissions
  /\ IF trim(videoUrl) = <<>>
     THEN /\ formError' = "Please enter a YouTube URL"
          /\ UNCHANGED <<isAnalyzing, calls>>
     ELSE IF ~validateYouTubeUrl(videoUrl)
     THEN /\ formError' = "Please enter a valid YouTube URL"
          /\ UNCHANGED <<isAnalyzing, calls>>
     ELSE /\ formError' = ""
          /\ handleVideoAnalysis(videoUrl, summaryDepth)
  /\ lastOp' = "handleSubmit"
  /\ UNCHANGED <<videoUrl, summaryDepth, alerts, navigated, quizVars, calcVars, tsVars,
                 fmtVars, pageVars>>

\* disabled={isAnalyzing || !videoUrl.trim()} of the submit button
SubmitDisabledForm == isAnalyzing \/ trim(videoUrl) = <<>>

\* a submit button that stays enabled while a request is pending
SubmitClick_IgnoresAnalyzing ==
  /\ trim(videoUrl) # <<>>
  /\ handleSubmit

\* a click on the submit button
SubmitClick ==
  /\ ~SubmitDisabledForm
  /\ handleSubmit

\* onChange of the URL input, disabled while isAnalyzing
setVideoUrl ==
  /\ navigated = Null
  /\ ~isAnalyzing
  /\ \E value \in HomeUrls : videoUrl' = value
  /\ lastOp' = "setVideoUrl"
  /\ UNCHANGED <<summaryDepth, formError, isAnalyzing, calls, alerts,
                 navigated, quizVars, calcVars, tsVars,
                 fmtVars, pageVars>>

\* onChange of the depth select, disabled while isAnalyzing
setSummaryDepth ==
  /\ navigated = Null
  /\ ~isAnalyzing
  /\ \E value \in SummaryDepths : summaryDepth' = value
  /\ lastOp' = "setSummaryDepth"
  /\ UNCHANGED <<videoUrl, formError, isAnalyzing, calls, alerts, navigated,
                 quizVars, calcVars, tsVars,
                 fmtVars, pageVars>>

\* the catch and finally blocks of handleVideoAnalysis for invocation i
catchAndFinally(i) ==
  /\ calls' = [calls EXCEPT ![i].pc = "failed"]
  /\ alerts' = Append(alerts, AnalyzeFailedAlert)
  /\ isAnalyzing' = FALSE

\* a failure path whose finally block does not reset isAnalyzing
FetchSettles_NoFinally ==
  \E i \in DOMAIN calls :
    /\ calls[i].pc = "awaitFetch"
    /\ \/ /\ calls' = [calls EXCEPT ![i].pc = "awaitJson"]
          /\ lastOp' = "fetchOk"
          /\ UNCHANGED <<alerts, isAnalyzing>>
       \/ /\ calls' = [calls EXCEPT ![i].pc = "failed"]
          /\ alerts' = Append(alerts, AnalyzeFailedAlert)
          /\ lastOp' = "fetchFailed"
          /\ UNCHANGED isAnalyzing
    /\ UNCHANGED <<videoUrl, summaryDepth, formError, navigated, quizVars, calcVars, tsVars,
                 fmtVars, pageVars>>

\* the fetch promise of invocation i settles: a response that is ok, or a
\* response that is not ok or a rejection (both reach the catch block)
FetchSettles ==
  \E i \in DOMAIN calls :
    /\ calls[i].pc = "awaitFetch"
    /\ \/ /\ calls' = [calls EXCEPT ![i].pc = "awaitJson"]
          /\ lastOp' = "fetchOk"
          /\ UNCHANGED <<alerts, isAnalyzing>>
       \/ /\ catchAndFinally(i)
          /\ lastOp' = "fetchFailed"
    /\ UNCHANGED <<videoUrl, summaryDepth, formError, navigated, quizVars, calcVars, tsVars,
                 fmtVars, pageVars>>

\* response.json() of invocation i settles: the data, and navigate is
\* called, or a rejection
JsonSettles ==
  \E i \in DOMAIN calls :
    /\ calls[i].pc = "awaitJson"
    /\ \/ /\ \E video_id \in {"v1"} :
               navigated' = [video_id |-> video_id]
          /\ calls' = [calls EXCEPT ![i].pc = "navigated"]
          /\ isAnalyzing' = FALSE
          /\ lastOp' = "navigate"
          /\ UNCHANGED alerts
       \/ /\ catchAndFinally(i)
          /\ lastOp' = "jsonFailed"
          /\ UNCHANGED navigated
    /\ UNCHANGED <<videoUrl, summaryDepth, formError, quizVars, calcVars, tsVars,
                 fmtVars, pageVars>>

InitHome ==
  /\ UnmountedHome
  /\ UnmountedQuiz
  /\ UnmountedCalc
  /\ UnmountedTs
  /\ UnmountedFmt
  /\ UnmountedPage
  /\ lastOp = "init"

NextHome ==
  \/ setVideoUrl
  \/ setSummaryDepth
  \/ SubmitClick
  \/ FetchSettles
  \/ JsonSettles
SpecHome == InitHome /\ [][NextHome]_vars

\* handleSubmit applied to the form holding any of the URLs
InitSubmit ==
  /\ videoUrl \in FormUrls
  /\ summaryDepth \in SummaryDepths
  /\ formError \in {"", "Please enter a valid YouTube URL"}
  /\ isAnalyzing = FALSE
  /\ calls = <<>>
  /\ alerts = <<>>
  /\ navigated = Null
  /\ UnmountedQuiz
  /\ UnmountedCalc
  /\ UnmountedTs
  /\ UnmountedFmt
  /\ UnmountedPage
  /\ lastOp = "init"

\* the submit event of the form while no request is pending
SubmitEvent ==
  /\ ~isAnalyzing
  /\ handleSubmit

NextSubmit == SubmitEvent \/ FetchSettles \/ JsonSettles
SpecSubmit == InitSubmit /\ [][NextSubmit]_vars

(***************************************************************************)
(* The analysis page (AnalysisPage).  A JavaScript value that may be null, *)
(* undefined or a string is Null, Undefined or JSStr(s); a summary is an   *)
(* object or a string held as a sequence of one-character strings.         *)
(***************************************************************************)
Undefined == [isUndefined |-> TRUE]
JSStr(str) == [str |-> str]
\* the value is truthy: not null, not undefined and not the empty string
Truthy(v) == v # Null /\ v # Undefined /\ v # JSStr("")

SummaryObject == [type |-> "object", chars |-> <<>>]
SummaryString(chars) == [type |-> "string", chars |-> chars]
\* 'mock data', 'No transcript', 'dummy', 'using mock transcript for testing'
MockPhrases ==
  {<<"m", "o", "c", "k", " ", "d", "a", "t", "a">>,
   <<"N", "o", " ", "t", "r", "a", "n", "s", "c", "r", "i", "p", "t">>,
   <<"d", "u", "m", "m", "y">>,
   <<"u", "s", "i", "n", "g", " ", "m", "o", "c", "k", " ", "t", "r", "a", "n",
     "s", "c", "r", "i", "p", "t", " ", "f", "o", "r", " ", "t", "e", "s", "t",
     "i", "n", "g">>}

\* the notes injected in mock-data mode (the first line of the literal)
MockNotes == JSStr("# Study Notes: Introduction to React")

\* analysis results as the backend or the home page hands them over: not in
\* mock-data mode without and with notes, in mock-data mode by status, by a
\* summary string ('A dummy summary') with empty notes, and with notes; with
\* and without a transcript
AnalysisResults ==
  {[video_id |-> "v1", status |-> "completed", summary |-> SummaryObject,
    notes |-> Undefined, transcript |-> JSStr("text")],
   [video_id |-> "v1", status |-> "completed",
    summary |-> SummaryString(<<"A", " ", "s", "u", "m", "m", "a", "r", "y">>),
    notes |-> JSStr("notes"), transcript |-> Undefined],
   [video_id |-> "v1", status |-> "using_mock_data", summary |-> SummaryObject,
    notes |-> Undefined, transcript |-> JSStr("text")],
   [video_id |-> "v1", status |-> "completed",
    summary |-> SummaryString(<<"A", " ", "d", "u", "m", "m", "y", " ", "s",
                                "u", "m", "m", "a", "r", "y">>),
    notes |-> JSStr(""), transcript |-> JSStr("")],
   [video_id |-> "v1", status |-> "using_mock_data", summary |-> SummaryObject,
    notes |-> JSStr("notes"), transcript |-> Undefined]}
\* the video ids of the route /analysis/:videoId
RouteVideoIds == {"v1", "v2"}
\* the analysis results of the video id
AnalysisResultsOf(id) == {[data EXCEPT !.video_id = id] : data \in AnalysisResults}

NoTranscriptDetail == "No transcript available for this video"
\* the bodies of a response that is not ok, as response.json().catch(() =>
\* ({})) yields them: {} for a body that is not JSON or has no detail
ErrorBodies == {[detail |-> Undefined], [detail |-> JSStr(NoTranscriptDetail)],
                [detail |-> JSStr("Analysis not found")]}
\* the status of a response that is not ok
ErrorStatuses == {404, 500}
\* the message of the error a rejected fetch or response.json() carries
RejectionMessages == {"Failed to fetch", ""}
BodyUsedMessage == "body stream already read"

isUsingMockData(data) ==
  /\ data # Null
  /\ \/ data.status = "using_mock_data"
     \/ /\ data.summary.type = "string"
        /\ \E phrase \in MockPhrases : includes(data.summary.chars, phrase)

\* a render that replaces the notes whenever the page is in mock-data mode
Render_OverwritesNotes(data) ==
  IF isUsingMockData(data)
  THEN [data EXCEPT !.notes = MockNotes]
  ELSE data

\* the render body up to the early returns: the notes of the state object
\* are assigned in place in mock-data mode
Render(data) ==
  IF isUsingMockData(data) /\ ~Truthy(data.notes)
  THEN [data EXCEPT !.notes = MockNotes]
  ELSE data

\* the branch of the render that returns
View ==
  IF loading THEN "loading"
  ELSE IF Truthy(error) THEN "error"
  ELSE IF analysisData = Null THEN "empty"
  ELSE "results"

\* a render after analysisData and showMockDataToast were set to data and
\* toast, followed by the effect on [isUsingMockData]
RenderAndEffects(data, toast) ==
  /\ analysisData' = Render(data)
  /\ IF ~mounted \/ isUsingMockData(data) # mockEffectDep
     THEN /\ mockEffectDep' = isUsingMockData(data)
          /\ showMockDataToast' = isUsingMockData(data)
          /\ toastTimer' = isUsingMockData(data)
     ELSE /\ showMockDataToast' = toast
          /\ UNCHANGED <<mockEffectDep, toastTimer>>

InitPage ==
  /\ routeVideoId = "v1"
  /\ locationState \in {Null} \cup AnalysisResultsOf(routeVideoId)
  /\ analysisData = locationState
  /\ loading = (analysisData = Null)
  /\ error = Null
  /\ showMockDataToast = FALSE
  /\ fetches = <<>>
  /\ mounted = FALSE
  /\ mockEffectDep = FALSE
  /\ toastTimer = FALSE
  /\ generatingCards = FALSE
  /\ showCardsToast = FALSE
  /\ cardRequests = <<>>
  /\ UnmountedQuiz
  /\ UnmountedCalc
  /\ UnmountedTs
  /\ UnmountedFmt
  /\ UnmountedHome
  /\ lastOp = "init"

\* fetchAnalysisData of the render with the route id and location.state
\* given, up to its first await: the GET is sent
fetchAnalysisData(id, state) ==
  /\ loading' = TRUE
  /\ fetches' = Append(fetches, [pc |-> "awaitFetch", videoId |-> id,
                                 state |-> state, status |-> 0,
                                 noTranscript |-> FALSE])

\* the first render and the effects of the mount
Mount ==
  /\ ~mounted
  /\ mounted' = TRUE
  /\ RenderAndEffects(analysisData, showMockDataToast)
  /\ IF analysisData = Null THEN fetchAnalysisData(routeVideoId, locationState)
     ELSE UNCHANGED <<loading, fetches>>
  /\ lastOp' = "mount"
  /\ UNCHANGED <<routeVideoId, locationState, error, cardVars, quizVars, calcVars,
                 tsVars, fmtVars, homeVars>>

\* a catch block that is not followed by setLoading(false)
catchFetchError_NoFinally(i, message) ==
  /\ fetches' = [fetches EXCEPT ![i].pc = "failed"]
  /\ error' = IF message # "" THEN JSStr(message)
              ELSE JSStr("Failed to load analysis data. Please try again.")
  /\ IF Truthy(fetches[i].state)
     THEN RenderAndEffects(fetches[i].state, TRUE)
     ELSE RenderAndEffects(analysisData, showMockDataToast)
  /\ UNCHANGED loading

\* the catch and finally blocks of fetchAnalysisData for invocation i
\* and the render that follows
catchFetchError(i, message) ==
  /\ fetches' = [fetches EXCEPT ![i].pc = "failed"]
  /\ error' = IF message # "" THEN JSStr(message)
              ELSE JSStr("Failed to load analysis data. Please try again.")
  /\ IF Truthy(fetches[i].state)
     THEN RenderAndEffects(fetches[i].state, TRUE)
     ELSE RenderAndEffects(analysisData, showMockDataToast)
  /\ loading' = FALSE

\* the fetch promise of invocation i settles: rejected, or a response that
\* is ok or is not
PageFetchSettles ==
  \E i \in DOMAIN fetches :
    /\ fetches[i].pc = "awaitFetch"
    /\ \/ /\ \E message \in RejectionMessages : catchFetchError(i, message)
          /\ lastOp' = "fetchRejected"
       \/ /\ fetches' = [fetches EXCEPT ![i].pc = "awaitJson",
                                         ![i].status = 200]
          /\ lastOp' = "fetchOk"
          /\ UNCHANGED <<analysisData, loading, error, showMockDataToast,
                         mockEffectDep, toastTimer>>
       \/ /\ \E status \in ErrorStatuses :
               fetches' = [fetches EXCEPT ![i].pc = "awaitErrorJson",
                                          ![i].status = status]
          /\ lastOp' = "fetchNotOk"
          /\ UNCHANGED <<analysisData, loading, error, showMockDataToast,
                         mockEffectDep, toastTimer>>
    /\ UNCHANGED <<routeVideoId, locationState, mounted, cardVars, quizVars, calcVars,
                 tsVars, fmtVars, homeVars>>

\* response.json().catch(() => ({})) of a response that is not ok settles
ErrorJsonSettles ==
  \E i \in DOMAIN fetches :
    /\ fetches[i].pc = "awaitErrorJson"
    /\ \E errorData \in ErrorBodies :
         IF fetches[i].status = 404
              /\ errorData.detail = JSStr(NoTranscriptDetail)
         THEN /\ fetches' = [fetches EXCEPT ![i].pc = "awaitSecondJson",
                                            ![i].noTranscript = TRUE]
              /\ RenderAndEffects(analysisData, TRUE)
              /\ lastOp' = "noTranscript"
              /\ UNCHANGED <<loading, error>>
         ELSE /\ catchFetchError(i, IF Truthy(errorData.detail)
                                    THEN errorData.detail.str
                                    ELSE "Failed to fetch analysis data")
              /\ lastOp' = "fetchFailed"
    /\ UNCHANGED <<routeVideoId, locationState, mounted, cardVars, quizVars, calcVars,
                 tsVars, fmtVars, homeVars>>

\* the second response.json() of the no-transcript branch settles: the body
\* was read by the first one, so the promise is rejected
SecondJsonSettles ==
  \E i \in DOMAIN fetches :
    /\ fetches[i].pc = "awaitSecondJson"
    /\ catchFetchError(i, BodyUsedMessage)
    /\ lastOp' = "secondJsonRejected"
    /\ UNCHANGED <<routeVideoId, locationState, mounted, cardVars, quizVars, calcVars,
                 tsVars, fmtVars, homeVars>>

\* response.json() of an ok response settling with setError(null) on success
PageJsonSettles_ClearsError ==
  \E i \in DOMAIN fetches :
    /\ fetches[i].pc = "awaitJson"
    /\ \/ /\ \E data \in AnalysisResultsOf(fetches[i].videoId) :
               RenderAndEffects(data, showMockDataToast)
          /\ fetches' = [fetches EXCEPT ![i].pc = "done"]
          /\ loading' = FALSE
          /\ lastOp' = "dataLoaded"
          /\ error' = Null
       \/ /\ catchFetchError(i, "Unexpected end of JSON input")
          /\ lastOp' = "jsonRejected"
    /\ UNCHANGED <<routeVideoId, locationState, mounted, cardVars, quizVars,
                   calcVars, tsVars, fmtVars, homeVars>>

\* response.json() of an ok response settles: the data, or a rejection
PageJsonSettles ==
  \E i \in DOMAIN fetches :
    /\ fetches[i].pc = "awaitJson"
    /\ \/ /\ \E data \in AnalysisResultsOf(fetches[i].videoId) :
               RenderAndEffects(data, showMockDataToast)
          /\ fetches' = [fetches EXCEPT ![i].pc = "done"]
          /\ loading' = FALSE
          /\ lastOp' = "dataLoaded"
          /\ UNCHANGED error
       \/ /\ catchFetchError(i, "Unexpected end of JSON input")
          /\ lastOp' = "jsonRejected"
    /\ UNCHANGED <<routeVideoId, locationState, mounted, cardVars, quizVars, calcVars,
                 tsVars, fmtVars, homeVars>>

\* the timer of the toast effect fires
ToastTimerFires ==
  /\ toastTimer
  /\ toastTimer' = FALSE
  /\ showMockDataToast' = FALSE
  /\ lastOp' = "toastTimer"
  /\ UNCHANGED <<routeVideoId, locationState, analysisData, loading, error,
                 fetches, mounted,
                 mockEffectDep, cardVars, quizVars, calcVars,
                 tsVars, fmtVars, homeVars>>

\* the close button of the toast
CloseToast ==
  /\ mounted
  /\ View = "results"
  /\ showMockDataToast
  /\ showMockDataToast' = FALSE
  /\ lastOp' = "closeToast"
  /\ UNCHANGED <<routeVideoId, locationState, analysisData, loading, error,
                 fetches, mounted,
                 mockEffectDep, toastTimer, cardVars, quizVars, calcVars,
                 tsVars, fmtVars, homeVars>>

\* the debug button that shows the toast
ShowToastClick ==
  /\ mounted
  /\ View = "results"
  /\ showMockDataToast' = TRUE
  /\ lastOp' = "showToast"
  /\ UNCHANGED <<routeVideoId, locationState, analysisData, loading, error,
                 fetches, mounted,
                 mockEffectDep, toastTimer, cardVars, quizVars, calcVars,
                 tsVars, fmtVars, homeVars>>

\* location.state?.analysisData of the locations the router hands over
\* later: /analysis/v1 was opened by its URL, the other locations were
\* pushed by the home page with a completed analysis of the video
LocationStatesOf(id) ==
  IF id = "v1" THEN {Null}
  ELSE {data \in AnalysisResultsOf(id) :
          data.status = "completed" /\ data.summary = SummaryObject}

\* the router hands the mounted page another /analysis/:videoId location:
\* the render of the new videoId and the effect on [videoId]
RouteChange ==
  /\ mounted
  /\ analysisData = Null => Len(fetches) < MaxFetches
  /\ \E id \in RouteVideoIds \ {routeVideoId} :
       \E state \in LocationStatesOf(id) :
         /\ routeVideoId' = id
         /\ locationState' = state
         /\ IF analysisData = Null THEN fetchAnalysisData(id, state)
            ELSE UNCHANGED <<loading, fetches>>
  /\ lastOp' = "routeChange"
  /\ UNCHANGED <<analysisData, error, showMockDataToast, mounted,
                 mockEffectDep, toastTimer, cardVars, quizVars, calcVars,
                 tsVars, fmtVars, homeVars>>

\* the catch and finally blocks of generateFlashcards
catchCardError(message) ==
  /\ error' = IF message # "" THEN JSStr(message)
              ELSE JSStr("Failed to generate flashcards")
  /\ generatingCards' = FALSE

\* the Generate Cards button that posts whatever the transcript is
GenerateCardsClick_NoTranscriptCheck ==
  /\ mounted
  /\ View = "results"
  /\ ~generatingCards
  /\ Len(cardRequests) < MaxCardRequests
  /\ generatingCards' = TRUE
  /\ cardRequests' = Append(cardRequests,
                            [pc |-> "awaitFetch", videoId |-> routeVideoId,
                             transcript |-> analysisData.transcript])
  /\ lastOp' = "generateFlashcards"
  /\ UNCHANGED <<error, showCardsToast>>
  /\ UNCHANGED <<routeVideoId, locationState, analysisData, loading,
                 showMockDataToast, fetches, mounted, mockEffectDep,
                 toastTimer, quizVars, calcVars, tsVars, fmtVars, homeVars>>

\* the Generate Cards button: generateFlashcards up to its first await
GenerateCardsClick ==
  /\ mounted
  /\ View = "results"
  /\ ~generatingCards
  /\ Len(cardRequests) < MaxCardRequests
  /\ IF ~Truthy(analysisData.transcript)
     THEN /\ catchCardError("No transcript available to generate flashcards")
          /\ lastOp' = "generateNoTranscript"
          /\ UNCHANGED <<cardRequests, showCardsToast>>
     ELSE /\ generatingCards' = TRUE
          /\ cardRequests' = Append(cardRequests,
                                    [pc |-> "awaitFetch",
                                     videoId |-> routeVideoId,
                                     transcript |-> analysisData.transcript])
          /\ lastOp' = "generateFlashcards"
          /\ UNCHANGED <<error, showCardsToast>>
  /\ UNCHANGED <<routeVideoId, locationState, analysisData, loading,
                 showMockDataToast, fetches, mounted, mockEffectDep,
                 toastTimer, quizVars, calcVars, tsVars, fmtVars, homeVars>>

\* the fetch promise of flashcard request i settles: rejected, or a
\* response that is ok or is not
CardFetchSettles ==
  \E i \in DOMAIN cardRequests :
    /\ cardRequests[i].pc = "awaitFetch"
    /\ \/ /\ \E message \in RejectionMessages : catchCardError(message)
          /\ cardRequests' = [cardRequests EXCEPT ![i].pc = "failed"]
          /\ lastOp' = "cardFetchRejected"
       \/ /\ cardRequests' = [cardRequests EXCEPT ![i].pc = "awaitJson"]
          /\ lastOp' = "cardFetchOk"
          /\ UNCHANGED <<error, generatingCards>>
       \/ /\ catchCardError("Failed to generate flashcards")
          /\ cardRequests' = [cardRequests EXCEPT ![i].pc = "failed"]
          /\ lastOp' = "cardFetchNotOk"
    /\ UNCHANGED <<routeVideoId, locationState, analysisData, loading,
                   showMockDataToast, fetches, mounted, mockEffectDep,
                   toastTimer, showCardsToast, quizVars, calcVars, tsVars,
                   fmtVars, homeVars>>

\* response.json() of an ok flashcard response settles: the payload, or a
\* rejection
CardJsonSettles ==
  \E i \in DOMAIN cardRequests :
    /\ cardRequests[i].pc = "awaitJson"
    /\ \/ /\ showCardsToast' = TRUE
          /\ generatingCards' = FALSE
          /\ cardRequests' = [cardRequests EXCEPT ![i].pc = "done"]
          /\ lastOp' = "cardsGenerated"
          /\ UNCHANGED error
       \/ /\ catchCardError("Unexpected end of JSON input")
          /\ cardRequests' = [cardRequests EXCEPT ![i].pc = "failed"]
          /\ lastOp' = "cardJsonRejected"
          /\ UNCHANGED showCardsToast
    /\ UNCHANGED <<routeVideoId, locationState, analysisData, loading,
                   showMockDataToast, fetches, mounted, mockEffectDep,
                   toastTimer, quizVars, calcVars, tsVars, fmtVars, homeVars>>

\* the close button of the flashcard toast
CloseCardsToast ==
  /\ mounted
  /\ View = "results"
  /\ showCardsToast
  /\ showCardsToast' = FALSE
  /\ lastOp' = "closeCardsToast"
  /\ UNCHANGED <<routeVideoId, locationState, analysisData, loading, error,
                 showMockDataToast, fetches, mounted, mockEffectDep,
                 toastTimer, generatingCards, cardRequests, quizVars,
                 calcVars, tsVars, fmtVars, homeVars>>

NextPage ==
  \/ Mount
  \/ RouteChange
  \/ PageFetchSettles
  \/ ErrorJsonSettles
  \/ SecondJsonSettles
  \/ PageJsonSettles
  \/ ToastTimerFires
  \/ CloseToast
  \/ ShowToastClick
  \/ GenerateCardsClick
  \/ CardFetchSettles
  \/ CardJsonSettles
  \/ CloseCardsToast
SpecPage == InitPage /\ [][NextPage]_vars
\* the timer of the toast effect fires once it is armed
FairSpecPage == SpecPage /\ WF_vars(ToastTimerFires)

(***************************************************************************)
(* Properties of calculateResults, checked under SpecCalc.                 *)
(***************************************************************************)
Returned == pc = "returned"
\* a / b rounded to the nearest integer, halves up (a >= 0, b > 0)
RoundHalfUp(a, b) == (2 * a + b) \div (2 * b)
AnsweredIndices == DOMAIN answers \cap Indices(quiz)
CorrectRecords == {k \in 1..Len(results.feedback) : results.feedback[k].isCorrect}

\* C1: for a quiz with at least one question, scorePercentage is an integer
\* in 0..100 equal to 100 * correctAnswers / totalQuestions rounded to the
\* nearest integer, halves rounded up.
C1_ScoreIsRoundHalfUp ==
  (Returned /\ Len(quiz.questions) >= 1) =>
    /\ ~results.scorePercentage.nan
    /\ results.scorePercentage.val \in 0..100
    /\ results.scorePercentage.val =
         RoundHalfUp(100 * results.correctAnswers, results.totalQuestions)

\* C2: for a quiz with no question, calculateResults returns
\* scorePercentage 0, totalQuestions 0, correctAnswers 0 and no feedback.
C2_EmptyQuizScoresZero ==
  (Returned /\ Len(quiz.questions) = 0) =>
    /\ results.scorePercentage = JSInt(0)
    /\ results.totalQuestions = 0
    /\ results.correctAnswers = 0
    /\ results.feedback = <<>>

\* C3: the feedback record of question i is marked correct exactly when the
\* mapping has an entry for i equal to the question's correct_answer, and
\* correctAnswers counts the records marked correct.
C3_CorrectIffExactMatch ==
  Returned =>
    /\ \A k \in 1..Len(results.feedback) :
         results.feedback[k].isCorrect <=>
           /\ (k - 1) \in DOMAIN answers
           /\ answers[k - 1] = quiz.questions[k].correct_answer
    /\ results.correctAnswers = Cardinality(CorrectRecords)

C3_Witness ==
  /\ Returned
  /\ Len(quiz.questions) = 3
  /\ results.feedback[1].isCorrect
  /\ 1 \in DOMAIN answers /\ ~results.feedback[2].isCorrect
  /\ 2 \notin DOMAIN answers /\ ~results.feedback[3].isCorrect

\* C4: a question without an entry in the mapping gets userAnswer
\* "Not answered", is not marked correct and does not count in the score.
C4_MissingIsNotAnswered ==
  Returned =>
    /\ \A k \in 1..Len(results.feedback) :
         (k - 1) \notin DOMAIN answers =>
           /\ results.feedback[k].userAnswer = "Not answered"
           /\ ~results.feedback[k].isCorrect
    /\ results.correctAnswers <= Cardinality(AnsweredIndices)

C4_Witness ==
  /\ Returned
  /\ quiz.questions = <<Q1, Q2, Q3>>
  /\ answers = [i \in {0, 1} |-> IF i = 0 THEN "A" ELSE "B"]
  /\ results.correctAnswers = 2
  /\ results.scorePercentage = JSInt(67)
  /\ results.feedback[3].userAnswer = "Not answered"
  /\ ~results.feedback[3].isCorrect

\* C5: feedback holds one record per question in question order, each
\* carrying its 0-based index, the correct answer and the explanation.
C5_OneRecordPerQuestionInOrder ==
  Returned =>
    /\ Len(results.feedback) = Len(quiz.questions)
    /\ results.totalQuestions = Len(quiz.questions)
    /\ \A k \in 1..Len(quiz.questions) :
         /\ results.feedback[k].questionIndex = k - 1
         /\ results.feedback[k].correctAnswer =
              quiz.questions[k].correct_answer
         /\ results.feedback[k].explanation = quiz.questions[k].explanation

C5_Witness ==
  /\ Returned
  /\ quiz.questions = <<Q3, Q1, Q2>>
  /\ DOMAIN answers = {1}
  /\ Len(results.feedback) = 3

\* C6: a call of calculateResults changes neither its arguments nor the
\* component state.
C6_CalculateResultsFrame ==
  [][(pc = "idle" /\ pc' = "returned") =>
       UNCHANGED <<quiz, answers, quizzes, selectedQuiz, userAnswers,
                   showResults, quizResults>>]_vars

C6_Witness ==
  /\ Returned
  /\ results # Null
  /\ Len(quiz.questions) = 3
  /\ DOMAIN answers = {0, 2}

(***************************************************************************)
(* Properties of the quiz component, checked under Spec.                   *)
(***************************************************************************)
AllAnswered == \A i \in Indices(currentQuiz) : i \in DOMAIN userAnswers

\* C7: Submit is enabled only when every question of the selected quiz has
\* an entry in userAnswers, so results shown through the UI were computed
\* with every question answered.
C7_SubmitOnlyWhenAllAnswered ==
  /\ SubmitEnabled => AllAnswered
  /\ showResults => AllAnswered

C7_Witness ==
  /\ SubmitEnabled
  /\ selectedQuiz = 1
  /\ Len(currentQuiz.questions) = 2
  /\ Len(quizzes[1].questions) = 1
  /\ lastOp = "handleAnswerSelect"

\* C8: after Reset Quiz, Try Again, a quiz selection or Next Quiz,
\* userAnswers is empty, showResults is false and quizResults is null.
C8_ResetAndSwitchClearState ==
  lastOp \in {"resetQuiz", "tryAgain", "selectQuiz", "nextQuiz"} =>
    /\ userAnswers = EmptyAnswers
    /\ ~showResults
    /\ quizResults = Null

C8_Witness ==
  /\ lastOp = "nextQuiz"
  /\ selectedQuiz = 1
  /\ Len(quizzes[1].questions) = 2
  /\ userAnswers = EmptyAnswers

(***************************************************************************)
(* Properties of the timestamp filter, checked under SpecTs.               *)
(***************************************************************************)
IsSubstring(sub, str) ==
  \E i \in 0..Len(str) : \E j \in i..Len(str) : SubSeq(str, i + 1, j) = sub

PassesTextFilter(entry) ==
  LET query == toLowerCase(searchTerm)
  IN \/ IsSubstring(query, toLowerCase(entry.topic))
     \/ IsSubstring(query, toLowerCase(entry.description))
     \/ \E k \in 1..Len(entry.keywords) :
          IsSubstring(query, toLowerCase(entry.keywords[k]))

PassesTopicFilter(entry) == selectedTopic = All \/ entry.topic = selectedTopic

PassingPositions ==
  {i \in 1..Len(timestamps) :
     PassesTextFilter(timestamps[i]) /\ PassesTopicFilter(timestamps[i])}

\* C9: filteredTimestamps is the subsequence of the entries passing both the
\* text filter and the topic filter, in their original order, each once.
C9_FilterIsPassingSubsequence ==
  /\ Len(filteredTimestamps) = Cardinality(PassingPositions)
  /\ \E pos \in [1..Len(filteredTimestamps) -> PassingPositions] :
       /\ \A k \in 1..(Len(filteredTimestamps) - 1) : pos[k] < pos[k + 1]
       /\ \A k \in 1..Len(filteredTimestamps) :
            filteredTimestamps[k] = timestamps[pos[k]]

C9_Witness ==
  /\ searchTerm = <<"L", "o", "O", "p">>
  /\ selectedTopic = Intro
  /\ E1 \in {timestamps[i] : i \in 1..Len(timestamps)}
  /\ E2 \in {timestamps[i] : i \in 1..Len(timestamps)}
  /\ filteredTimestamps = <<E4>>

\* C10: with the empty query and the selector "all" the filter returns the
\* whole list, entries with an empty keywords list included.
C10_EmptyCriteriaReturnAll ==
  (searchTerm = <<>> /\ selectedTopic = All) =>
    filteredTimestamps = timestamps

C10_Witness ==
  /\ searchTerm = <<>>
  /\ selectedTopic = All
  /\ lastOp = "setSearchTerm"
  /\ Len(timestamps) >= 2
  /\ \E i \in 1..Len(timestamps) : timestamps[i].keywords = <<>>
  /\ \E i \in 1..Len(timestamps) : timestamps[i].keywords # <<>>
  /\ filteredTimestamps = timestamps

\* C11: filtering is idempotent: applying the filter with the same query and
\* topic selector to an already filtered list returns that same list.
C11_FilterIdempotent ==
  filterWithCriteria(filteredTimestamps) = filteredTimestamps

\* a criterion was set and the filter kept some entries and dropped others
C11_Witness ==
  /\ lastOp \in {"setSearchTerm", "setSelectedTopic"}
  /\ filteredTimestamps # <<>>
  /\ Len(filteredTimestamps) >= 2
  /\ Len(filteredTimestamps) < Len(timestamps)

\* position of the first entry of the list whose topic is t
FirstOccurrence(t) ==
  CHOOSE i \in 1..Len(timestamps) :
    /\ timestamps[i].topic = t
    /\ \A j \in 1..(i - 1) : timestamps[j].topic # t

\* C12: the topic options are "all" followed by the distinct topic values of
\* the entries, each exactly once, in the order of their first occurrence in
\* the list, whatever the current query and topic selector are.
C12_TopicOptions ==
  LET rest == Tail(topics)
  IN /\ topics[1] = All
     /\ {rest[k] : k \in 1..Len(rest)} =
          {timestamps[i].topic : i \in 1..Len(timestamps)}
     /\ \A k, l \in 1..Len(rest) : k < l =>
          /\ rest[k] # rest[l]
          /\ FirstOccurrence(rest[k]) < FirstOccurrence(rest[l])

\* a list with a repeated topic, while the filter hides one of the topics
C12_Witness ==
  /\ lastOp \in {"setSearchTerm", "setSelectedTopic"}
  /\ Len(timestamps) = 3
  /\ Len(topics) = 3
  /\ \E i \in 1..Len(timestamps) :
       \A k \in 1..Len(filteredTimestamps) :
         filteredTimestamps[k].topic # timestamps[i].topic

(***************************************************************************)
(* Properties of formatTime, checked under SpecFmt.                        *)
(***************************************************************************)
\* the decimal numeral of a natural number, digit by digit from the right
RECURSIVE Decimal(_)
Decimal(n) ==
  IF n < 10 THEN <<DecimalDigits[n + 1]>>
  ELSE Append(Decimal(n \div 10), DecimalDigits[(n % 10) + 1])

\* C13: for a non-negative integer s, formatTime(s) is the decimal of
\* floor(s / 60), a colon, and s mod 60 written with exactly two digits;
\* minutes are not wrapped into hours: 0 gives "0:00", 59 gives "0:59",
\* 60 gives "1:00" and 3661 gives "61:01".
C13_FormatTime ==
  formatted # Null =>
    /\ formatted = Decimal(seconds \div 60) \o <<":">>
                     \o <<DecimalDigits[((seconds % 60) \div 10) + 1],
                          DecimalDigits[((seconds % 60) % 10) + 1]>>
    /\ seconds = 0 => formatted = <<"0", ":", "0", "0">>
    /\ seconds = 59 => formatted = <<"0", ":", "5", "9">>
    /\ seconds = 60 => formatted = <<"1", ":", "0", "0">>
    /\ seconds = 3661 => formatted = <<"6", "1", ":", "0", "1">>

\* formatTime has returned for an argument of more than an hour
C13_Witness ==
  /\ lastOp = "formatTime"
  /\ seconds = 3661
  /\ formatted = <<"6", "1", ":", "0", "1">>

(***************************************************************************)
(* Properties of the timestamp cards, checked under SpecClick.             *)
(***************************************************************************)
\* C20: clicking a card of the filtered list makes exactly one window.open
\* call, to the video videoId at the seconds offset of the entry at the
\* clicked position of the filtered list, and changes neither the query nor
\* the topic selector.
C20_ClickOpensEntryOfFilteredList ==
  [][lastOp' = "handleTimestampClick" =>
       /\ Len(opened') = Len(opened) + 1
       /\ SubSeq(opened', 1, Len(opened)) = opened
       /\ opened'[Len(opened')].url =
            WatchUrl \o videoId \o TimeParam
              \o Decimal(filteredTimestamps[clicked' + 1].seconds)
       /\ UNCHANGED <<searchTerm, selectedTopic>>]_vars

\* a card was clicked whose position in the filtered list differs from the
\* position of its entry in the whole list
C20_Witness ==
  /\ lastOp = "handleTimestampClick"
  /\ opened # <<>>
  /\ searchTerm # <<>>
  /\ filteredTimestamps[clicked + 1] # timestamps[clicked + 1]

(***************************************************************************)
(* Properties of the form's handleSubmit, checked under SpecSubmit.        *)
(***************************************************************************)
\* the form URLs that are blank or match no YouTube URL pattern
RejectedUrls == {UrlEmpty, UrlBlank, UrlOther, UrlNoId}

\* C14: a submission whose URL is blank or matches no YouTube URL pattern
\* sets the inline error message and does not call onAnalyze, so no POST
\* /api/analyze is sent for it.
C14_InvalidUrlBlockedLocally ==
  [][(lastOp' = "handleSubmit" /\ videoUrl \in RejectedUrls) =>
       /\ formError' # ""
       /\ calls' = calls
       /\ isAnalyzing' = isAnalyzing
       /\ \A i \in DOMAIN calls' : calls'[i].url \notin RejectedUrls]_vars

\* a URL of another site was submitted and rejected
C14_Witness ==
  /\ lastOp = "handleSubmit"
  /\ videoUrl = UrlOther
  /\ formError = "Please enter a valid YouTube URL"
  /\ calls = <<>>

(***************************************************************************)
(* Properties of the home page, checked under SpecHome.                    *)
(***************************************************************************)
\* the invocations whose POST has not settled (response and body)
Pending == {i \in DOMAIN calls : calls[i].pc \in {"awaitFetch", "awaitJson"}}

\* C15: at most one POST /api/analyze is in flight at any time; while one
\* is, isAnalyzing is true and the submit control is disabled, so no second
\* submission can start.
C15_SingleAnalyzeInFlight ==
  /\ Cardinality(Pending) <= 1
  /\ Pending # {} => (isAnalyzing /\ SubmitDisabledForm)

\* a second request is pending after a first one has failed
C15_Witness ==
  /\ Len(calls) = 2
  /\ calls[1].pc = "failed"
  /\ calls[2].pc = "awaitFetch"
  /\ isAnalyzing

\* C16: when POST /api/analyze fails, exactly one error message is shown
\* (the alert; the inline error stays empty), no navigation happens, no
\* request is sent again, and isAnalyzing is false so that the user can
\* submit again.
C16_AnalyzeFailure ==
  [][lastOp' \in {"fetchFailed", "jsonFailed"} =>
       /\ alerts' = Append(alerts, AnalyzeFailedAlert)
       /\ formError' = ""
       /\ navigated' = Null
       /\ Len(calls') = Len(calls)
       /\ \A i \in DOMAIN calls' : calls'[i].pc \notin {"awaitFetch", "awaitJson"}
       /\ ~isAnalyzing'
       /\ ~SubmitDisabledForm']_vars

\* the user has submitted again after a failed request
C16_Witness ==
  /\ Len(calls) = 2
  /\ calls[1].pc = "failed"
  /\ Len(alerts) = 1
  /\ navigated = Null

(***************************************************************************)
(* Properties of the analysis page, checked under SpecPage.                *)
(***************************************************************************)
\* C17: when the fetch of the analysis fails (a rejected fetch, a response
\* that is not ok other than the no-transcript one, a body that does not
\* parse), error is set to one non-empty string, loading is false, the
\* error view is rendered and no further request is sent.
C17_FetchFailureShowsErrorView ==
  [][lastOp' \in {"fetchRejected", "fetchFailed", "jsonRejected"} =>
       /\ error' # Null
       /\ error'.str # ""
       /\ ~loading'
       /\ View' = "error"
       /\ Len(fetches') = Len(fetches)
       /\ \E i \in DOMAIN fetches :
            fetches[i].pc # "failed" /\ fetches'[i].pc = "failed"]_vars

\* a response with status 500 and a detail was turned into the error view
C17_Witness ==
  /\ lastOp = "fetchFailed"
  /\ Len(fetches) = 1
  /\ fetches[1].status = 500
  /\ error = JSStr("Analysis not found")
  /\ View = "error"

\* C18: once the 404 "No transcript available for this video" answer has
\* been handled, the page is in degraded mode: analysisData is set, the
\* mock-data notification is shown, error is null and the results view is
\* rendered.
C18_NoTranscriptDegradedMode ==
  \A i \in DOMAIN fetches :
    (fetches[i].noTranscript /\ fetches[i].pc # "awaitSecondJson") =>
      /\ analysisData # Null
      /\ showMockDataToast
      /\ error = Null
      /\ View = "results"

\* C19: once an analysis result is stored in analysisData, no render, effect
\* or user action changes any of its fields.
C19_AnalysisDataImmutable ==
  [][analysisData # Null => analysisData' = analysisData]_vars

(***************************************************************************)
(* Further properties of the quiz component, checked under Spec.           *)
(***************************************************************************)
\* C24: whenever the results are shown, quizResults is not null and is the
\* result of calculateResults on the selected quiz and the current answers.
C24_ShownResultsAreCurrent ==
  showResults =>
    /\ quizResults # Null
    /\ quizResults = calculateResults(currentQuiz, userAnswers)

\* results shown for the second of two different quizzes
C24_Witness ==
  /\ showResults
  /\ lastOp = "handleSubmitQuiz"
  /\ selectedQuiz = 1
  /\ quizzes[1] # quizzes[2]
  /\ Len(currentQuiz.questions) = 2

(***************************************************************************)
(* Further properties of calculateResults, checked under SpecCalc.         *)
(***************************************************************************)
\* C25: for every question with an entry in the answer mapping, the
\* feedback record's userAnswer is the mapped option itself, for every
\* option string, the empty string included.
C25_AnsweredKeepsOption ==
  Returned =>
    \A k \in 1..Len(results.feedback) :
      (k - 1) \in DOMAIN answers =>
        results.feedback[k].userAnswer = answers[k - 1]

(***************************************************************************)
(* Further properties of the timestamp list, checked under SpecTs.         *)
(***************************************************************************)
\* the number of options equal to t
OptionCount(t) == Cardinality({k \in 1..Len(topics) : topics[k] = t})
EntriesOfTopic(t) ==
  LET HasTopic(entry) == entry.topic = t
  IN SelectSeq(timestamps, HasTopic)

\* C26: every topic value of the list, "all" included, is offered exactly
\* once, and while it is selected with an empty query the entries shown are
\* exactly the entries of that topic.
C26_TopicSelectsItsEntries ==
  \A i \in 1..Len(timestamps) :
    LET t == timestamps[i].topic
    IN /\ OptionCount(t) = 1
       /\ (selectedTopic = t /\ searchTerm = <<>>) =>
            filteredTimestamps = EntriesOfTopic(t)

(***************************************************************************)
(* Further properties of the analysis page, checked under SpecPage.        *)
(***************************************************************************)
\* the invocations whose request or body read has not settled yet
PendingFetches == {i \in DOMAIN fetches : fetches[i].pc \notin {"done", "failed"}}
PendingCards ==
  {i \in DOMAIN cardRequests : cardRequests[i].pc \notin {"done", "failed"}}

\* C21: at most one network operation of the analysis page is outstanding:
\* never two flashcard requests, never two analysis fetches, never a
\* flashcard request together with an analysis fetch.
C21_SingleNetworkOperation ==
  Cardinality(PendingFetches) + Cardinality(PendingCards) <= 1

\* C22: loading is true while a fetch is pending (so the results view is
\* not rendered then), and when a fetch settles loading is false and either
\* analysisData is set with error null (success) or error is set (failure).
C22_LoadingSequencedByFetch ==
  [][/\ PendingFetches' # {} => loading'
     /\ \A i \in PendingFetches :
          /\ fetches'[i].pc = "done" =>
               ~loading' /\ analysisData' # Null /\ error' = Null
          /\ fetches'[i].pc = "failed" =>
               ~loading' /\ Truthy(error')]_vars

\* the mock-data notification is on screen
ToastVisible == View = "results" /\ showMockDataToast

\* C23: whenever the mock-data notification is visible it gets hidden
\* without any user action, at the latest when the 10 second timer fires.
C23_ToastAutoExpires == ToastVisible ~> ~ToastVisible

\* C27: whenever the results are rendered, analysisData is the analysis of
\* the current route videoId.
C27_ShownDataIsOfRoute ==
  View = "results" => analysisData.video_id = routeVideoId

\* C28 (as stated): once error is set, every later render is the full-page
\* error state.
C28_ErrorViewForever == [][Truthy(error) => View' = "error"]_vars

\* C28 (amended): once error is set it stays set and the results view is
\* never rendered again: every later render is the error state, or the
\* loading state while a fetch started by a route change is pending; a
\* failed flashcard generation sets error although analysisData is present.
C28_ErrorNeverCleared ==
  [][/\ Truthy(error) =>
          Truthy(error') /\ View' \in {"error", "loading"}
     /\ lastOp' \in {"generateNoTranscript", "cardFetchRejected",
                     "cardFetchNotOk", "cardJsonRejected"} =>
          Truthy(error') /\ View' = "error"]_vars

\* a flashcard request failed while the results were displayed
C28_Witness ==
  /\ lastOp = "cardFetchNotOk"
  /\ analysisData # Null
  /\ error = JSStr("Failed to generate flashcards")
  /\ View = "error"

\* C29: generateFlashcards without a transcript sends no request and sets
\* error; every invocation leaves generatingCards false once it has
\* settled; the success notification appears only on a success response.
C29_GenerateFlashcards ==
  [][/\ lastOp' = "generateNoTranscript" =>
          cardRequests' = cardRequests /\ Truthy(error')
     /\ Len(cardRequests') > Len(cardRequests) =>
          Truthy(analysisData.transcript)
     /\ lastOp' \in {"generateNoTranscript", "cardFetchRejected",
                     "cardFetchNotOk", "cardJsonRejected",
                     "cardsGenerated"} => ~generatingCards'
     /\ (showCardsToast' /\ ~showCardsToast) =>
          /\ lastOp' = "cardsGenerated"
          /\ \E i \in PendingCards : cardRequests'[i].pc = "done"]_vars

\* an invocation without a transcript has settled without a request
C29_Witness ==
  /\ lastOp = "generateNoTranscript"
  /\ cardRequests = <<>>
  /\ ~generatingCards
  /\ error = JSStr("No transcript available to generate flashcards")

\* the analysis results the page can be handed, for any route
ReceivedResults == UNION {AnalysisResultsOf(id) : id \in RouteVideoIds}

\* C30: analysisData is an analysis as it was received, or one received in
\* mock-data mode without notes (none, or the empty string) whose notes are
\* the canned notes: notes that are present are never replaced and an
\* analysis outside mock-data mode never gets the canned notes.
C30_NotesInjectedOnlyInMockMode ==
  analysisData # Null =>
    \E data \in ReceivedResults :
      \/ analysisData = data
      \/ /\ isUsingMockData(data)
         /\ ~Truthy(data.notes)
         /\ analysisData = [data EXCEPT !.notes = MockNotes]

\* a fetched mock-data analysis got the canned notes
C30_Witness ==
  /\ lastOp = "dataLoaded"
  /\ analysisData.status = "using_mock_data"
  /\ analysisData.notes = MockNotes

====
